---- MODULE Spec2Model ----
(***************************************************************************)
(* Model of the vapi-health-agent tool webhook server (the dispatcher of   *)
(* POST /tool/:toolName with its two handlers) and of the code tool that   *)
(* deploy.js installs on the voice platform.                               *)
(*                                                                         *)
(* JavaScript values are tagged records.  A JavaScript string is a         *)
(* sequence of text chunks (a template literal yields one chunk per        *)
(* literal part and per interpolation); a string holding JSON text is a    *)
(* sequence of JSON tokens, which JSONParse reads token by token.          *)
(***************************************************************************)
EXTENDS Integers, Sequences, FiniteSets, TLC

(***************************************************************************)
(* JavaScript values                                                       *)
(***************************************************************************)
JUndef == [t |-> "undefined"]
JNull == [t |-> "null"]
JStr(chunks) == [t |-> "string", s |-> chunks]
JText(tokens) == [t |-> "text", x |-> tokens]
JArr(elems) == [t |-> "array", a |-> elems]
JObj(props) == [t |-> "object", o |-> props]
JFun(name) == [t |-> "function", f |-> name]
\* a number is kept as its digits, a boolean as itself
JNum(digits) == [t |-> "number", n |-> digits]
JBool(b) == [t |-> "boolean", b |-> b]
Prop(key, value) == [k |-> <<key>>, v |-> value]

\* typeof v
TypeOf(v) ==
  CASE v.t \in {"string", "text"} -> "string"
    [] v.t = "undefined" -> "undefined"
    [] v.t = "function" -> "function"
    [] v.t = "number" -> "number"
    [] v.t = "boolean" -> "boolean"
    [] OTHER -> "object"

\* ToBoolean(v): the test of if (!handler), of a || b
Truthy(v) ==
  CASE v.t \in {"undefined", "null"} -> FALSE
    [] v.t = "string" -> v.s # <<>>
    [] v.t = "text" -> v.x # <<>>
    [] v.t = "number" -> v.n # "0"
    [] v.t = "boolean" -> v.b
    [] OTHER -> TRUE

\* completions of an evaluation: a value, or a thrown Error with its message
Normal(v) == [c |-> "normal", v |-> v]
Throw(msg) == [c |-> "throw", v |-> JStr(<<msg>>)]

\* own property lookup on an object built from a literal or by JSON.parse
HasOwn(obj, key) == \E i \in DOMAIN obj.o : obj.o[i].k = <<key>>
OwnValue(obj, key) ==
  LET i == CHOOSE j \in DOMAIN obj.o :
             /\ obj.o[j].k = <<key>>
             /\ \A h \in DOMAIN obj.o : obj.o[h].k = <<key>> => h <= j
  IN obj.o[i].v

\* v.key for a data property: throws on undefined and null
GetProp(v, key) ==
  CASE v.t \in {"undefined", "null"} ->
         Throw("Cannot read properties of " \o v.t)
    [] v.t = "object" ->
         Normal(IF HasOwn(v, key) THEN OwnValue(v, key) ELSE JUndef)
    [] OTHER -> Normal(JUndef)

\* String(v), as a template literal's ${v} does
RECURSIVE ToChunks(_)
RECURSIVE JoinChunks(_, _, _)
JoinChunks(elems, sep, i) ==
  IF i > Len(elems) THEN <<>>
  ELSE LET e == elems[i]
           piece == IF e.t \in {"undefined", "null"} THEN <<>> ELSE ToChunks(e)
       IN (IF i > 1 THEN <<sep>> ELSE <<>>) \o piece \o JoinChunks(elems, sep, i + 1)
ToChunks(v) ==
  CASE v.t = "string" -> v.s
    [] v.t = "text" -> <<"<json text>">>
    [] v.t = "undefined" -> <<"undefined">>
    [] v.t = "null" -> <<"null">>
    [] v.t = "array" -> JoinChunks(v.a, ",", 1)
    [] v.t = "function" -> <<"function ", v.f>>
    [] v.t = "number" -> <<v.n>>
    [] v.t = "boolean" -> <<IF v.b THEN "true" ELSE "false">>
    [] OTHER -> <<"[object Object]">>

\* s.includes(sub) on chunked strings: sub occurs as consecutive chunks
Contains(s, sub) ==
  \E i \in 0..(Len(s) - Len(sub)) : \A j \in 1..Len(sub) : s[i + j] = sub[j]

(***************************************************************************)
(* JSON.stringify and JSON.parse over token sequences                      *)
(***************************************************************************)
Tok(kind, chunks) == [k |-> kind, v |-> chunks]
Punct(kind) == Tok(kind, <<>>)

RECURSIVE StringifyValue(_)
RECURSIVE StringifyElems(_, _)
RECURSIVE StringifyProps(_, _, _)
StringifyElems(elems, i) ==
  IF i > Len(elems) THEN <<>>
  ELSE (IF i > 1 THEN <<Punct(",")>> ELSE <<>>)
       \o (IF elems[i].t \in {"undefined", "function"}
           THEN <<Punct("null")>> ELSE StringifyValue(elems[i]))
       \o StringifyElems(elems, i + 1)
\* a property whose value is undefined or a function is left out
StringifyProps(props, i, first) ==
  IF i > Len(props) THEN <<>>
  ELSE IF props[i].v.t \in {"undefined", "function"}
       THEN StringifyProps(props, i + 1, first)
       ELSE (IF first THEN <<>> ELSE <<Punct(",")>>)
            \o <<Tok("str", props[i].k), Punct(":")>>
            \o StringifyValue(props[i].v)
            \o StringifyProps(props, i + 1, FALSE)
StringifyValue(v) ==
  CASE v.t = "string" -> <<Tok("str", v.s)>>
    [] v.t = "text" -> <<Tok("str", <<"<json text>">>)>>
    [] v.t = "null" -> <<Punct("null")>>
    [] v.t = "number" -> <<Tok("num", <<v.n>>)>>
    [] v.t = "boolean" -> <<Punct(IF v.b THEN "true" ELSE "false")>>
    [] v.t = "array" -> <<Punct("[")>> \o StringifyElems(v.a, 1) \o <<Punct("]")>>
    [] v.t = "object" -> <<Punct("{")>> \o StringifyProps(v.o, 1, TRUE) \o <<Punct("}")>>
    [] OTHER -> <<>>
JSONStringify(v) == JText(StringifyValue(v))

ParseFail == [ok |-> FALSE, v |-> JUndef, n |-> 0]
ParseOk(v, n) == [ok |-> TRUE, v |-> v, n |-> n]
RECURSIVE ParseValue(_, _)
RECURSIVE ParseElems(_, _, _)
RECURSIVE ParseMembers(_, _, _)
ParseElems(ts, i, acc) ==
  LET e == ParseValue(ts, i) IN
  IF ~e.ok \/ e.n > Len(ts) THEN ParseFail
  ELSE IF ts[e.n].k = "," THEN ParseElems(ts, e.n + 1, Append(acc, e.v))
  ELSE IF ts[e.n].k = "]" THEN ParseOk(JArr(Append(acc, e.v)), e.n + 1)
  ELSE ParseFail
ParseMembers(ts, i, acc) ==
  IF i + 1 > Len(ts) \/ ts[i].k # "str" \/ ts[i + 1].k # ":" THEN ParseFail
  ELSE LET e == ParseValue(ts, i + 2)
           member == [k |-> ts[i].v, v |-> e.v]
       IN IF ~e.ok \/ e.n > Len(ts) THEN ParseFail
          ELSE IF ts[e.n].k = "," THEN ParseMembers(ts, e.n + 1, Append(acc, member))
          ELSE IF ts[e.n].k = "}" THEN ParseOk(JObj(Append(acc, member)), e.n + 1)
          ELSE ParseFail
ParseValue(ts, i) ==
  IF i > Len(ts) THEN ParseFail
  ELSE CASE ts[i].k = "str" -> ParseOk(JStr(ts[i].v), i + 1)
         [] ts[i].k = "null" -> ParseOk(JNull, i + 1)
         [] ts[i].k = "num" -> ParseOk(JNum(ts[i].v[1]), i + 1)
         [] ts[i].k \in {"true", "false"} -> ParseOk(JBool(ts[i].k = "true"), i + 1)
         [] ts[i].k = "[" ->
              IF i + 1 <= Len(ts) /\ ts[i + 1].k = "]"
              THEN ParseOk(JArr(<<>>), i + 2) ELSE ParseElems(ts, i + 1, <<>>)
         [] ts[i].k = "{" ->
              IF i + 1 <= Len(ts) /\ ts[i + 1].k = "}"
              THEN ParseOk(JObj(<<>>), i + 2) ELSE ParseMembers(ts, i + 1, <<>>)
         [] OTHER -> ParseFail
\* JSON.parse(text): the value, or a thrown SyntaxError
JSONParse(text) ==
  IF text.t # "text" THEN Throw("Unexpected token")
  ELSE LET p == ParseValue(text.x, 1) IN
       IF p.ok /\ p.n = Len(text.x) + 1 THEN Normal(p.v) ELSE Throw("Unexpected token")

(***************************************************************************)
(* The tool registry and the two handlers                                  *)
(***************************************************************************)
RegisteredTools == {"log_health_status", "schedule_followup"}

\* tools[toolName] on the object literal `tools`: its own keys, then what the
\* literal inherits from Object.prototype, else undefined
ToolsLookup(toolName) ==
  CASE toolName = "log_health_status" -> JFun("logHealthStatus.handler")
    [] toolName = "schedule_followup" -> JFun("scheduleFollowup.handler")
    [] toolName = "constructor" -> JFun("Object")
    [] toolName = "__proto__" -> JObj(<<>>)
    [] toolName = "toString" -> JFun("Object.prototype.toString")
    [] toolName = "hasOwnProperty" -> JFun("Object.prototype.hasOwnProperty")
    [] OTHER -> JUndef

ResultOf(chunks) == JObj(<<Prop("result", JStr(chunks))>>)

\* a handler that refuses an empty symptom list
LogHealthStatusHandlerNonEmpty(params) ==
  LET name == GetProp(params, "patientName") IN
  IF name.c = "throw" THEN name
  ELSE LET sym == GetProp(params, "symptoms").v
           mood == GetProp(params, "mood").v
       IN IF sym.t # "array" \/ sym.a = <<>> THEN Throw("symptoms is required")
          ELSE Normal(ResultOf(<<"Health status logged for ">> \o ToChunks(name.v)
                 \o <<". Symptoms: ">> \o JoinChunks(sym.a, ", ", 1)
                 \o <<". ", "Mood: ">> \o ToChunks(mood) \o <<".">>))

\* log_health_status handler(params): a plain (synchronous) function
LogHealthStatusHandler(params) ==
  LET name == GetProp(params, "patientName") IN
  IF name.c = "throw" THEN name
  ELSE LET sym == GetProp(params, "symptoms").v
           mood == GetProp(params, "mood").v
       IN IF sym.t \in {"undefined", "null"}
          THEN Throw("Cannot read properties of " \o sym.t)
          ELSE IF sym.t # "array" THEN Throw("params.symptoms.join is not a function")
          ELSE Normal(ResultOf(<<"Health status logged for ">> \o ToChunks(name.v)
                 \o <<". Symptoms: ">> \o JoinChunks(sym.a, ", ", 1)
                 \o <<". ", "Mood: ">> \o ToChunks(mood) \o <<".">>))

\* process.env.VAPI_PHONE_NUMBER_ID
EnvPhoneNumberId == JStr(<<"phone-number-1">>)
CallUrl == "https://api.vapi.ai/call"

\* the object schedule_followup passes to JSON.stringify as the request body
\* (the constant voice block is left out)
ScheduleFollowupBody(params) ==
  LET name == GetProp(params, "patientName") IN
  IF name.c = "throw" THEN name
  ELSE LET reason == GetProp(params, "reason").v IN
    Normal(JObj(<<
      Prop("assistant", JObj(<<
        Prop("name", JStr(<<"HealthFollowUp">>)),
        Prop("model", JObj(<<
          Prop("provider", JStr(<<"openai">>)),
          Prop("model", JStr(<<"gpt-4o">>)),
          Prop("messages", JArr(<<JObj(<<
            Prop("role", JStr(<<"system">>)),
            Prop("content", JStr(
              <<"You are a friendly health follow-up agent calling ">>
              \o ToChunks(name.v) \o <<".", " ", "Reason for this call: ">>
              \o ToChunks(reason) \o <<".">>))>>)>>))>>)),
        Prop("firstMessage", JStr(<<"Hi ">> \o ToChunks(name.v)
          \o <<", this is your health check-in calling about: ">>
          \o ToChunks(reason) \o <<". How have you been feeling?">>)),
        Prop("firstMessageMode", JStr(<<"assistant-speaks-first">>))>>)),
      Prop("phoneNumberId", EnvPhoneNumberId),
      Prop("customer", JObj(<<
        Prop("number", GetProp(params, "patientPhone").v),
        Prop("name", name.v)>>)),
      Prop("schedulePlan", JObj(<<
        Prop("earliestAt", GetProp(params, "followUpDate").v)>>))>>))

\* schedule_followup after `const data = await response.json()`
ScheduleFollowupFinish(params, resp, data) ==
  IF ~resp.ok
  THEN LET m == GetProp(data, "message") IN
       IF m.c = "throw" THEN m
       ELSE Normal(ResultOf(<<"Failed to schedule follow-up: ">>
              \o (IF Truthy(m.v) THEN ToChunks(m.v) ELSE <<"unknown error">>)))
  ELSE LET id == GetProp(data, "id") IN
       IF id.c = "throw" THEN id
       ELSE Normal(ResultOf(<<"Follow-up call scheduled for ">>
              \o ToChunks(GetProp(params, "patientName").v) \o <<" on ">>
              \o ToChunks(GetProp(params, "followUpDate").v)
              \o <<". ", "Call ID: ">> \o ToChunks(id.v) \o <<".">>))

\* Object(value), reached when the path names the inherited `constructor`
ObjectCall(value) == IF value.t \in {"undefined", "null"} THEN JObj(<<>>) ELSE value

(***************************************************************************)
(* Inputs: the requests a client may send and the answers of api.vapi.ai   *)
(***************************************************************************)
MaxCalls == 2
Requests == {"r1", "r2"}
ToolNames == {"log_health_status", "schedule_followup", "constructor", "__proto__", "send_alert"}
\* how a batch names its calls: each call its own id, or one id for all
IdPatterns == {"own", "same"}
CallIdAt(pattern, r, i) ==
  IF pattern = "same" THEN "call-x" ELSE r \o "-call-" \o ToString(i)
\* followUpDate values: one before and one after the time the server runs
PastDate == "2020-01-01T09:00:00Z"
FutureDate == "2030-01-01T09:00:00Z"

\* an arguments mapping as JSON delivers it: a property is present or absent
MakeParams(symptoms, mood, date) ==
  JObj(<<Prop("patientName", JStr(<<"Ann">>)), Prop("patientPhone", JStr(<<"+15550100">>))>>
       \o (IF symptoms.t = "undefined" THEN <<>> ELSE <<Prop("symptoms", symptoms)>>)
       \o <<Prop("mood", JStr(<<mood>>)), Prop("followUpDate", JStr(<<date>>)),
            Prop("reason", JStr(<<"cough">>))>>)
ParamsEmptyPoor == MakeParams(JArr(<<>>), "poor", PastDate)
ParamsTwoGood == MakeParams(JArr(<<JStr(<<"cough">>), JStr(<<"fever">>)>>), "good", FutureDate)
ParamsOneFair == MakeParams(JArr(<<JStr(<<"cough">>)>>), "fair", PastDate)
ParamsNoSymptoms == MakeParams(JUndef, "fair", FutureDate)
Mappings == {ParamsEmptyPoor, ParamsTwoGood, ParamsOneFair, ParamsNoSymptoms}
EncodedMappings == {ParamsEmptyPoor, ParamsTwoGood}
MalformedText == JText(<<Punct("{"), Tok("str", <<"patientName">>)>>)
NullText == JText(<<Punct("null")>>)
ArgumentChoices ==
  Mappings \cup {JSONStringify(m) : m \in EncodedMappings} \cup {MalformedText, NullText}

ToolCall(id, arguments) ==
  JObj(<<Prop("id", JStr(<<id>>)),
         Prop("function", JObj(<<Prop("arguments", arguments)>>))>>)
RECURSIVE NumberedCalls(_, _, _, _)
NumberedCalls(pattern, r, arguments, i) ==
  IF i > Len(arguments) THEN <<>>
  ELSE <<ToolCall(CallIdAt(pattern, r, i), arguments[i])>>
       \o NumberedCalls(pattern, r, arguments, i + 1)
RECURSIVE SeqsUpTo(_, _)
SeqsUpTo(S, n) ==
  IF n = 0 THEN {<<>>}
  ELSE LET shorter == SeqsUpTo(S, n - 1) IN
       shorter \cup {Append(q, e) : q \in shorter, e \in S}
BodyWithList(calls) ==
  JObj(<<Prop("message", JObj(<<Prop("type", JStr(<<"tool-calls">>)),
                                Prop("toolCallList", JArr(calls))>>))>>)
BodyWithoutList == JObj(<<Prop("message", JObj(<<Prop("type", JStr(<<"tool-calls">>))>>))>>)
BodyWithoutMessage == JObj(<<>>)
Bodies ==
  {BodyWithList(NumberedCalls(pattern, "r1", q, 1)) :
     pattern \in IdPatterns, q \in SeqsUpTo(ArgumentChoices, MaxCalls)}
  \cup {BodyWithoutList, BodyWithoutMessage}

\* two requests in flight together, a batch of up to MaxCalls calls beside
\* one of up to two: every call has an id of its own
ConcurrentTools == RegisteredTools
ConcurrentArguments == {ParamsEmptyPoor, MalformedText}
ConcurrentRequests(r) ==
  {[toolName |-> n, body |-> BodyWithList(NumberedCalls("own", r, q, 1))] :
     n \in ConcurrentTools,
     q \in SeqsUpTo(ConcurrentArguments, IF r = "r1" THEN MaxCalls ELSE 2)}

\* what fetch(CallUrl) settles with: a rejection, or a response
NoResponse == [settle |-> "none", ok |-> FALSE, body |-> JUndef]
HttpAnswer(ok, body) == [settle |-> "resolve", ok |-> ok, body |-> body]
PlatformAnswers ==
  { [settle |-> "reject", ok |-> FALSE, body |-> JUndef],
    HttpAnswer(TRUE, JSONStringify(JObj(<<Prop("id", JStr(<<"call-0001">>))>>))),
    HttpAnswer(FALSE, JSONStringify(JObj(<<Prop("message", JStr(<<"Bad Request">>))>>))),
    HttpAnswer(FALSE, JSONStringify(JObj(<<>>))),
    HttpAnswer(FALSE, JText(<<Tok("<html>", <<>>)>>)) }

(***************************************************************************)
(* The dispatcher: app.post("/tool/:toolName", async (req, res) => ...)    *)
(***************************************************************************)
VARIABLES
  req,       \* req[r]: the request, [toolName, body]
  pc,        \* pc[r]: "none", "received", "loop", "await", "responded"
  idx,       \* idx[r]: position of the for-of loop in toolCalls
  results,   \* results[r]: the handler's local `results` array
  frames,    \* frames[r]: the handler invocations made for r, in order
  response,  \* response[r]: what res.status().json() sent
  threw,     \* threw[r]: where the try block threw, if it did
  outbox,    \* the requests sent to the voice platform
  googleAuth, \* whether Google's token endpoint grants tokens: "up", "down"
  hosted,    \* the run of LOG_HEALTH_STATUS_CODE on the voice platform
  health,    \* what GET /health last answered
  deploy     \* the run of deploy.js and of the schedule_followup code tool
vars == <<req, pc, idx, results, frames, response, threw, outbox, googleAuth, hosted, health, deploy>>

NoRequest == [toolName |-> "", body |-> JUndef]
NotSent == [status |-> 0, body |-> JUndef]
NotThrown == [at |-> 0, stage |-> "none"]

\* const toolCalls = req.body.message?.toolCallList || []
ToolCallsOf(body) ==
  LET message == GetProp(body, "message") IN
  IF message.c = "throw" THEN message
  ELSE IF message.v.t \in {"undefined", "null"} THEN Normal(JArr(<<>>))
  ELSE LET list == GetProp(message.v, "toolCallList").v IN
       IF Truthy(list) THEN Normal(list) ELSE Normal(JArr(<<>>))

\* arguments handed on as they arrive, strings included
DecodeArgumentsNoParse(call) ==
  LET fn == GetProp(call, "function") IN
  IF fn.c = "throw" THEN fn ELSE GetProp(fn.v, "arguments")

\* typeof call.function.arguments === "string" ? JSON.parse(...) : ...
DecodeArguments(call) ==
  LET fn == GetProp(call, "function") IN
  IF fn.c = "throw" THEN fn
  ELSE LET arguments == GetProp(fn.v, "arguments") IN
       IF arguments.c = "throw" THEN arguments
       ELSE IF TypeOf(arguments.v) = "string" THEN JSONParse(arguments.v)
       ELSE arguments

\* one invocation of a handler: the call it serves, the function, its
\* argument, how far it got, the response it fetched, its completion
Frame(i, fn, params, stage, out) ==
  [call |-> i, fn |-> fn, params |-> params, stage |-> stage,
   resp |-> NoResponse, out |-> out]
Pending == [c |-> "pending", v |-> JUndef]

\* handler(params) up to its first await (or to its end, if it has none)
StartHandler(handler, params, i) ==
  IF handler.t # "function" THEN Frame(i, "", params, "threw", Throw("handler is not a function"))
  ELSE CASE handler.f = "logHealthStatus.handler" ->
              LET out == LogHealthStatusHandler(params) IN
              Frame(i, handler.f, params, IF out.c = "throw" THEN "threw" ELSE "settled", out)
         [] handler.f = "scheduleFollowup.handler" ->
              LET body == ScheduleFollowupBody(params) IN
              IF body.c = "throw" THEN Frame(i, handler.f, params, "settled", body)
              ELSE Frame(i, handler.f, params, "fetching", Pending)
         [] handler.f = "Object" ->
              Frame(i, handler.f, params, "settled", Normal(ObjectCall(params)))
         [] handler.f = "Object.prototype.toString" ->
              Frame(i, handler.f, params, "settled", Normal(JStr(<<"[object Undefined]">>)))
         [] OTHER ->
              Frame(i, handler.f, params, "threw", Throw("Cannot convert undefined or null to object"))

\* a submission that refuses dates already past
SubmitCallFutureOnly(box, r, params) ==
  IF GetProp(params, "followUpDate").v = JStr(<<PastDate>>) THEN box
  ELSE Append(box, [req |-> r, url |-> CallUrl, method |-> "POST",
                    body |-> JSONStringify(ScheduleFollowupBody(params).v)])

\* await fetch("https://api.vapi.ai/call", { method: "POST", body: ... })
SubmitCall(box, r, params) ==
  Append(box, [req |-> r, url |-> CallUrl, method |-> "POST",
               body |-> JSONStringify(ScheduleFollowupBody(params).v)])

\* a results array shared by every request
PushResultShared(res, r, entry) == [q \in DOMAIN res |-> Append(res[q], entry)]
\* a push at the front
PushResultFront(res, r, entry) == [res EXCEPT ![r] = <<entry>> \o @]

\* results.push({ toolCallId: call.id, result: result.result })
PushResult(res, r, entry) == [res EXCEPT ![r] = Append(@, entry)]

ResultEntry(call, out) ==
  JObj(<<Prop("toolCallId", GetProp(call, "id").v), Prop("result", GetProp(out, "result").v)>>)

\* a 500 that also returns what was computed so far
CatchResponsePartial(err, partial) ==
  [status |-> 500, body |-> JObj(<<Prop("error", err), Prop("results", JArr(partial))>>)]

\* catch (err): res.status(500).json({ error: err.message })
CatchResponse(err, partial) == [status |-> 500, body |-> JObj(<<Prop("error", err)>>)]

\* a loop that goes on without waiting for the handler
ResumeReadyNoAwait(frame) == TRUE

\* `await handler(params)` resumes once the handler's promise has settled
ResumeReady(frame) == frame.stage = "settled"

Calls(r) == ToolCallsOf(req[r].body).v.a

\* the handler is looked up; an unknown tool is answered 404
Dispatch(r) ==
  /\ pc[r] = "received"
  /\ LET handler == ToolsLookup(req[r].toolName)
         toolCalls == ToolCallsOf(req[r].body)
     IN IF ~Truthy(handler)
        THEN /\ response' = [response EXCEPT ![r] =
                   [status |-> 404,
                    body |-> JObj(<<Prop("error", JStr(<<"Unknown tool: ", req[r].toolName>>))>>)]]
             /\ pc' = [pc EXCEPT ![r] = "responded"]
             /\ UNCHANGED threw
        ELSE IF toolCalls.c = "throw" \/ toolCalls.v.t # "array"
        THEN /\ response' = [response EXCEPT ![r] =
                   CatchResponse(IF toolCalls.c = "throw" THEN toolCalls.v
                                 ELSE JStr(<<"toolCalls is not iterable">>), results[r])]
             /\ threw' = [threw EXCEPT ![r] = [at |-> 0, stage |-> "body"]]
             /\ pc' = [pc EXCEPT ![r] = "responded"]
        ELSE /\ pc' = [pc EXCEPT ![r] = "loop"]
             /\ UNCHANGED <<response, threw>>
  /\ UNCHANGED <<req, idx, results, frames, outbox, googleAuth, hosted, health, deploy>>

\* one turn of `for (const call of toolCalls)` up to the await, or the
\* response after the last call
Iterate(r) ==
  /\ pc[r] = "loop"
  /\ IF idx[r] > Len(Calls(r))
     THEN /\ response' = [response EXCEPT ![r] =
                [status |-> 200, body |-> JObj(<<Prop("results", JArr(results[r]))>>)]]
          /\ pc' = [pc EXCEPT ![r] = "responded"]
          /\ UNCHANGED <<frames, threw, outbox>>
     ELSE LET params == DecodeArguments(Calls(r)[idx[r]]) IN
          IF params.c = "throw"
          THEN /\ response' = [response EXCEPT ![r] = CatchResponse(params.v, results[r])]
               /\ threw' = [threw EXCEPT ![r] = [at |-> idx[r], stage |-> "decode"]]
               /\ pc' = [pc EXCEPT ![r] = "responded"]
               /\ UNCHANGED <<frames, outbox>>
          ELSE LET frame == StartHandler(ToolsLookup(req[r].toolName), params.v, idx[r]) IN
               /\ frames' = [frames EXCEPT ![r] = Append(@, frame)]
               /\ outbox' = IF frame.stage = "fetching"
                            THEN SubmitCall(outbox, r, params.v) ELSE outbox
               /\ IF frame.stage = "threw"
                  THEN /\ response' = [response EXCEPT ![r] =
                             CatchResponse(frame.out.v, results[r])]
                       /\ threw' = [threw EXCEPT ![r] = [at |-> idx[r], stage |-> "handler"]]
                       /\ pc' = [pc EXCEPT ![r] = "responded"]
                  ELSE /\ pc' = [pc EXCEPT ![r] = "await"]
                       /\ UNCHANGED <<response, threw>>
  /\ UNCHANGED <<req, idx, results, googleAuth, hosted, health, deploy>>

\* the fetch of schedule_followup settles: the platform answers, or the
\* request fails on the network
FetchSettles(r, j) ==
  /\ j \in DOMAIN frames[r]
  /\ frames[r][j].stage = "fetching"
  /\ \E answer \in PlatformAnswers :
       frames' = [frames EXCEPT ![r][j] =
         IF answer.settle = "reject"
         THEN [@ EXCEPT !.stage = "settled", !.resp = answer, !.out = Throw("fetch failed")]
         ELSE [@ EXCEPT !.stage = "reading", !.resp = answer]]
  /\ UNCHANGED <<req, pc, idx, results, response, threw, outbox, googleAuth, hosted, health, deploy>>

\* `await response.json()` settles and schedule_followup runs to its end
JsonSettles(r, j) ==
  /\ j \in DOMAIN frames[r]
  /\ frames[r][j].stage = "reading"
  /\ LET frame == frames[r][j]
         data == JSONParse(frame.resp.body)
         out == IF data.c = "throw" THEN data
                ELSE ScheduleFollowupFinish(frame.params, frame.resp, data.v)
     IN frames' = [frames EXCEPT ![r][j] = [@ EXCEPT !.stage = "settled", !.out = out]]
  /\ UNCHANGED <<req, pc, idx, results, response, threw, outbox, googleAuth, hosted, health, deploy>>

\* the dispatcher continues after `await handler(params)`: the result is
\* pushed, or the rejection is caught
Resume(r) ==
  /\ pc[r] = "await"
  /\ LET j == Len(frames[r])
         frame == frames[r][j]
         settled == frame.stage = "settled"
         value == IF settled THEN frame.out.v ELSE JObj(<<>>)
         result == GetProp(value, "result")
     IN /\ ResumeReady(frame)
        /\ frames' = [frames EXCEPT ![r][j].stage = IF settled THEN "done" ELSE @]
        /\ IF (settled /\ frame.out.c = "throw") \/ result.c = "throw"
           THEN /\ response' = [response EXCEPT ![r] =
                      CatchResponse(IF settled /\ frame.out.c = "throw"
                                    THEN frame.out.v ELSE result.v, results[r])]
                /\ threw' = [threw EXCEPT ![r] = [at |-> idx[r], stage |-> "handler"]]
                /\ pc' = [pc EXCEPT ![r] = "responded"]
                /\ UNCHANGED <<idx, results>>
           ELSE /\ results' = PushResult(results, r, ResultEntry(Calls(r)[idx[r]], value))
                /\ idx' = [idx EXCEPT ![r] = @ + 1]
                /\ pc' = [pc EXCEPT ![r] = "loop"]
                /\ UNCHANGED <<response, threw>>
  /\ UNCHANGED <<req, outbox, googleAuth, hosted, health, deploy>>

(***************************************************************************)
(* LOG_HEALTH_STATUS_CODE: the code tool deploy.js creates; the voice      *)
(* platform runs it with `args` and `env` when the assistant calls it      *)
(***************************************************************************)
TokenUrl == "https://oauth2.googleapis.com/token"
AppendUrl == "https://sheets.googleapis.com/v4/spreadsheets/<id>/values/Sheet1:append"
Now == "<now>"

HostedArgs(symptoms, followup) ==
  JObj(<<Prop("overall_status", JStr(<<"fair">>))>>
       \o (IF symptoms = "" THEN <<>> ELSE <<Prop("symptoms_reported", JStr(<<symptoms>>))>>)
       \o <<Prop("notes", JStr(<<"resting">>))>>
       \o (IF followup = "" THEN <<>> ELSE <<Prop("followup_scheduled", JStr(<<followup>>))>>))
HostedArgsChoices == {HostedArgs("cough", "yes"), HostedArgs("", "")}
PrivateKeys == {"pem", "not-a-pem"}

TokenAnswers(auth) ==
  IF auth = "up"
  THEN { HttpAnswer(TRUE, JSONStringify(JObj(<<Prop("access_token", JStr(<<"ya29">>)),
                                             Prop("expires_in", JNum("3599"))>>))) }
  ELSE { [settle |-> "reject", ok |-> FALSE, body |-> JUndef],
         HttpAnswer(FALSE, JSONStringify(JObj(<<Prop("error", JStr(<<"invalid_grant">>)),
                     Prop("error_description", JStr(<<"Invalid JWT Signature.">>))>>))),
         HttpAnswer(FALSE, JText(<<Tok("<html>", <<>>)>>)) }
AppendAnswers ==
  { [settle |-> "reject", ok |-> FALSE, body |-> JUndef],
    HttpAnswer(TRUE, JSONStringify(JObj(<<Prop("updates",
                JObj(<<Prop("updatedCells", JNum("5"))>>))>>))),
    HttpAnswer(TRUE, JSONStringify(JObj(<<>>))),
    HttpAnswer(FALSE, JSONStringify(JObj(<<Prop("error",
                JObj(<<Prop("code", JNum("403")),
                       Prop("status", JStr(<<"PERMISSION_DENIED">>))>>))>>))),
    HttpAnswer(FALSE, JText(<<Tok("<html>", <<>>)>>)) }

\* createJWT(email, privateKey): sign.sign throws on a key it cannot read
CreateJWT(email, privateKey) ==
  IF privateKey = "pem" THEN Normal(JStr(<<"header.payload.", "signature">>))
  ELSE Throw("error:1E08010C:DECODER routines::unsupported")

\* x || ''
OrEmpty(v) == IF Truthy(v) THEN v ELSE JStr(<<>>)

\* const values = [timestamp, overall_status || '', ...]
SheetRow(args) ==
  JArr(<<JStr(<<Now>>), OrEmpty(GetProp(args, "overall_status").v),
         OrEmpty(GetProp(args, "symptoms_reported").v), OrEmpty(GetProp(args, "notes").v),
         OrEmpty(GetProp(args, "followup_scheduled").v)>>)

\* a check that lets every token response through
TokenFailedNever(tokenResponse) == Normal(JBool(FALSE))

\* if (tokenResponse.error)
TokenFailed(tokenResponse) ==
  LET e == GetProp(tokenResponse, "error") IN
  IF e.c = "throw" THEN e ELSE Normal(JBool(Truthy(e.v)))

HostedIdle ==
  [pc |-> "idle", args |-> JUndef, key |-> "", resp |-> NoResponse,
   token |-> JUndef, ret |-> JUndef, sent |-> <<>>]
HostedThrows(err) == [hosted EXCEPT !.pc = "threw", !.ret = err]
HostedReturns(value) == [hosted EXCEPT !.pc = "returned", !.ret = value]

\* const tokenResponse = await getAccessToken(), up to the fetch
HostedBegin ==
  /\ hosted.pc = "start"
  /\ LET jwt == CreateJWT("GOOGLE_CLIENT_EMAIL", hosted.key) IN
     hosted' = IF jwt.c = "throw" THEN HostedThrows(jwt.v)
               ELSE [hosted EXCEPT !.pc = "tokenFetch",
                       !.sent = Append(@, [url |-> TokenUrl, body |-> jwt.v])]
  /\ UNCHANGED <<req, pc, idx, results, frames, response, threw, outbox, googleAuth, health, deploy>>

HostedTokenFetchSettles ==
  /\ hosted.pc = "tokenFetch"
  /\ \E answer \in TokenAnswers(googleAuth) :
       hosted' = IF answer.settle = "reject" THEN HostedThrows(JStr(<<"fetch failed">>))
                 ELSE [hosted EXCEPT !.pc = "tokenJson", !.resp = answer]
  /\ UNCHANGED <<req, pc, idx, results, frames, response, threw, outbox, googleAuth, health, deploy>>

\* return await response.json(); the check of tokenResponse.error; the
\* append request
HostedTokenJson ==
  /\ hosted.pc = "tokenJson"
  /\ LET data == JSONParse(hosted.resp.body)
         failed == TokenFailed(data.v)
     IN hosted' =
          IF data.c = "throw" THEN HostedThrows(data.v)
          ELSE IF failed.c = "throw" THEN HostedThrows(failed.v)
          ELSE IF failed.v.b
          THEN [HostedReturns(JObj(<<
                  Prop("error", JStr(<<"Failed to authenticate with Google">>)),
                  Prop("details", GetProp(data.v, "error").v)>>)) EXCEPT !.token = data.v]
          ELSE [hosted EXCEPT !.pc = "appendFetch", !.token = data.v,
                  !.sent = Append(@, [url |-> AppendUrl,
                     body |-> JSONStringify(JObj(<<Prop("values",
                                JArr(<<SheetRow(hosted.args)>>))>>))])]
  /\ UNCHANGED <<req, pc, idx, results, frames, response, threw, outbox, googleAuth, health, deploy>>

HostedAppendFetchSettles ==
  /\ hosted.pc = "appendFetch"
  /\ \E answer \in AppendAnswers :
       hosted' = IF answer.settle = "reject" THEN HostedThrows(JStr(<<"fetch failed">>))
                 ELSE [hosted EXCEPT !.pc = "appendJson", !.resp = answer]
  /\ UNCHANGED <<req, pc, idx, results, frames, response, threw, outbox, googleAuth, health, deploy>>

\* const result = await response.json(); the check of result.error; return
HostedAppendJson ==
  /\ hosted.pc = "appendJson"
  /\ LET data == JSONParse(hosted.resp.body)
         e == GetProp(data.v, "error")
         updates == GetProp(data.v, "updates").v
     IN hosted' =
          IF data.c = "throw" THEN HostedThrows(data.v)
          ELSE IF e.c = "throw" THEN HostedThrows(e.v)
          ELSE IF Truthy(e.v)
          THEN HostedReturns(JObj(<<Prop("error", JStr(<<"Failed to append to sheet">>)),
                                    Prop("details", e.v)>>))
          ELSE HostedReturns(JObj(<<
                 Prop("success", JBool(TRUE)),
                 Prop("message", JStr(<<"Health status logged successfully">>)),
                 Prop("updatedCells",
                      IF updates.t \in {"undefined", "null"} THEN JUndef
                      ELSE GetProp(updates, "updatedCells").v)>>))
  /\ UNCHANGED <<req, pc, idx, results, frames, response, threw, outbox, googleAuth, health, deploy>>

(***************************************************************************)
(* GET /health                                                             *)
(***************************************************************************)
\* a probe answered only while no batch is being handled
HealthHandlerWhenIdle(probe) ==
  IF \E r \in DOMAIN pc : pc[r] \in {"loop", "await"}
  THEN [status |-> 503, body |-> JObj(<<Prop("status", JStr(<<"busy">>))>>)]
  ELSE [status |-> 200, body |-> JObj(<<Prop("status", JStr(<<"ok">>))>>)]

\* (_req, res) => res.json({ status: "ok" })
HealthHandler(probe) ==
  [status |-> 200, body |-> JObj(<<Prop("status", JStr(<<"ok">>))>>)]

\* app.get("/health", ...): a probe arrives and is answered in the same turn
Health ==
  /\ health' = HealthHandler([method |-> "GET", path |-> "/health"])
  /\ UNCHANGED <<req, pc, idx, results, frames, response, threw, outbox,
                 googleAuth, hosted, deploy>>

(***************************************************************************)
(* deploy.js: the startup check, vapiRequest and deploy()                  *)
(***************************************************************************)
VAPI_BASE_URL == "https://api.vapi.ai"

\* process.env as dotenv leaves it: a variable is unset, empty or set
ApiKeys == {JUndef, JStr(<<>>), JStr(<<"vapi-key">>)}
EnvPhoneNumbers == {JUndef, JStr(<<"pn-env">>)}
GoogleSettings ==
  { [GOOGLE_CLIENT_EMAIL |-> JStr(<<"sa@example.iam">>),
     GOOGLE_PRIVATE_KEY |-> JStr(<<"pem">>), SPREADSHEET_ID |-> JStr(<<"sheet-1">>)],
    [GOOGLE_CLIENT_EMAIL |-> JStr(<<"sa@example.iam">>),
     GOOGLE_PRIVATE_KEY |-> JUndef, SPREADSHEET_ID |-> JUndef],
    [GOOGLE_CLIENT_EMAIL |-> JUndef, GOOGLE_PRIVATE_KEY |-> JUndef,
     SPREADSHEET_ID |-> JUndef] }
ProcessEnvs ==
  {[VAPI_API_KEY |-> k, PHONE_NUMBER_ID |-> p, google |-> g] :
     k \in ApiKeys, p \in EnvPhoneNumbers, g \in GoogleSettings}

\* the code tool's run: position, args, the request it sent, its outcome
RunIdle == [pc |-> "idle", args |-> JUndef, sent |-> <<>>, resp |-> NoResponse,
            time |-> JUndef, ret |-> JUndef]

\* deploy.js is not running
DeployOff ==
  [pc |-> "off", exit |-> -1, err |-> JUndef,
   env |-> [VAPI_API_KEY |-> JUndef, PHONE_NUMBER_ID |-> JUndef,
            google |-> [GOOGLE_CLIENT_EMAIL |-> JUndef, GOOGLE_PRIVATE_KEY |-> JUndef,
                        SPREADSHEET_ID |-> JUndef]],
   sent |-> <<>>, remote |-> <<>>,
   phoneNumberId |-> JUndef, logHealthTool |-> JUndef, sendAlertTool |-> JUndef,
   assistant |-> JUndef, scheduleFollowupTool |-> JUndef, run |-> RunIdle]

\* a startup that never stops the script
StartupExitNever(VAPI_API_KEY) == FALSE

\* if (!VAPI_API_KEY) { console.error(...); process.exit(1); }
StartupExit(VAPI_API_KEY) == ~Truthy(VAPI_API_KEY)

\* what api.vapi.ai answers to a request of the script: the fetch is
\* rejected, or a response with the new resource, an error, or no JSON
DeployAnswers(id) ==
  { [settle |-> "reject", ok |-> FALSE, body |-> JUndef],
    HttpAnswer(TRUE, JSONStringify(JObj(<<Prop("id", JStr(<<id>>))>>))),
    HttpAnswer(FALSE, JSONStringify(JObj(<<Prop("message", JStr(<<"Unauthorized">>))>>))),
    HttpAnswer(FALSE, JText(<<Tok("<html>", <<>>)>>)) }

\* vapiRequest after the fetch settled: response.json(), the test of
\* response.ok, the data
VapiRequest(answer) ==
  IF answer.settle = "reject" THEN Throw("fetch failed")
  ELSE LET data == JSONParse(answer.body) IN
       IF data.c = "throw" THEN data
       ELSE IF ~answer.ok
       THEN [c |-> "throw",
             v |-> JStr(<<"API Error: ">> \o ToChunks(JSONStringify(data.v)))]
       ELSE data

\* vapiRequest up to the fetch: the request leaves with its bearer token
\* and JSON body, and a POST the platform accepts creates the resource
DeploySend(d, endpoint, method, body, answer) ==
  LET text == IF Truthy(body) THEN JSONStringify(body) ELSE JNull
      request == [url |-> <<VAPI_BASE_URL>> \o endpoint, method |-> method,
                  authorization |-> <<"Bearer ">> \o ToChunks(d.env.VAPI_API_KEY),
                  body |-> text]
      created == answer.settle = "resolve" /\ answer.ok /\ method = "POST"
      stored == JSONParse(answer.body)
  IN [d EXCEPT !.sent = Append(@, request),
               !.remote = IF created
                          THEN Append(@, [kind |-> endpoint[1],
                                          id |-> IF stored.c = "throw" THEN JUndef
                                                 ELSE GetProp(stored.v, "id").v,
                                          body |-> JSONParse(text).v])
                          ELSE @]

\* deploy().catch(error => { console.error(...); process.exit(1); })
DeployCatch(d, error) == [d EXCEPT !.pc = "exited", !.exit = 1, !.err = error]

\* the script loads: dotenv, the constants, the check of VAPI_API_KEY and
\* the call of deploy()
DeployStartup ==
  /\ deploy.pc = "startup"
  /\ deploy' = IF StartupExit(deploy.env.VAPI_API_KEY)
               THEN [deploy EXCEPT !.pc = "exited", !.exit = 1,
                       !.err = JStr(<<"VAPI_API_KEY is required in .env">>)]
               ELSE [deploy EXCEPT !.pc = "phone",
                       !.phoneNumberId = deploy.env.PHONE_NUMBER_ID]
  /\ UNCHANGED <<req, pc, idx, results, frames, response, threw, outbox,
                 googleAuth, hosted, health>>

\* Step 1: the phone number of the environment, or a new one
DeployPhone ==
  /\ deploy.pc = "phone"
  /\ IF Truthy(deploy.phoneNumberId)
     THEN deploy' = [deploy EXCEPT !.pc = "logTool"]
     ELSE \E answer \in DeployAnswers("pn-1") :
            LET d == DeploySend(deploy, <<"/phone-number">>, "POST",
                       JObj(<<Prop("provider", JStr(<<"vapi">>))>>), answer)
                phoneNumber == VapiRequest(answer)
            IN deploy' = IF phoneNumber.c = "throw" THEN DeployCatch(d, phoneNumber.v)
                         ELSE [d EXCEPT !.pc = "logTool",
                                 !.phoneNumberId = GetProp(phoneNumber.v, "id").v]
  /\ UNCHANGED <<req, pc, idx, results, frames, response, threw, outbox,
                 googleAuth, hosted, health>>

\* { name, value } of a tool's environmentVariables
EnvVar(name, value) == JObj(<<Prop("name", JStr(<<name>>)), Prop("value", value)>>)

\* the bodies deploy() posts (descriptions and parameter schemas left out)
LogHealthToolBody(google) ==
  IF Truthy(google.GOOGLE_CLIENT_EMAIL) /\ Truthy(google.GOOGLE_PRIVATE_KEY)
     /\ Truthy(google.SPREADSHEET_ID)
  THEN JObj(<<Prop("type", JStr(<<"code">>)),
              Prop("function", JObj(<<Prop("name", JStr(<<"log_health_status">>))>>)),
              Prop("environmentVariables", JArr(<<
                EnvVar("GOOGLE_CLIENT_EMAIL", google.GOOGLE_CLIENT_EMAIL),
                EnvVar("GOOGLE_PRIVATE_KEY", google.GOOGLE_PRIVATE_KEY),
                EnvVar("SPREADSHEET_ID", google.SPREADSHEET_ID)>>)),
              Prop("code", JStr(<<"LOG_HEALTH_STATUS_CODE">>))>>)
  ELSE JObj(<<Prop("type", JStr(<<"function">>)),
              Prop("function", JObj(<<Prop("name", JStr(<<"log_health_status">>))>>))>>)
SendAlertToolBody ==
  JObj(<<Prop("type", JStr(<<"function">>)),
         Prop("function", JObj(<<Prop("name", JStr(<<"send_alert">>))>>))>>)
AssistantBody(toolIds) ==
  JObj(<<Prop("name", JStr(<<"Health Check-In Agent">>)),
         Prop("model", JObj(<<Prop("provider", JStr(<<"openai">>)),
                              Prop("model", JStr(<<"gpt-4o">>)),
                              Prop("toolIds", JArr(toolIds))>>))>>)
ScheduleFollowupToolBody(apiKey, assistantId, phoneNumberId) ==
  JObj(<<Prop("type", JStr(<<"code">>)),
         Prop("function", JObj(<<Prop("name", JStr(<<"schedule_followup">>))>>)),
         Prop("environmentVariables", JArr(<<
           EnvVar("VAPI_API_KEY", apiKey),
           EnvVar("ASSISTANT_ID", assistantId),
           EnvVar("PHONE_NUMBER_ID", phoneNumberId),
           EnvVar("PHONE", JStr(<<"call.customer.number}}">>))>>)),
         Prop("code", JStr(<<"SCHEDULE_FOLLOWUP_CODE">>))>>)
LinkBody(toolIds) ==
  JObj(<<Prop("model", JObj(<<Prop("provider", JStr(<<"openai">>)),
                              Prop("model", JStr(<<"gpt-4o">>)),
                              Prop("toolIds", JArr(toolIds))>>))>>)

\* x.id of an awaited vapiRequest
IdOfResource(x) == GetProp(x, "id").v

\* Step 2, tool 1: log_health_status, as a code tool or as a placeholder
DeployLogTool ==
  /\ deploy.pc = "logTool"
  /\ \E answer \in DeployAnswers("tool-log") :
       LET d == DeploySend(deploy, <<"/tool">>, "POST",
                  LogHealthToolBody(deploy.env.google), answer)
           logHealthTool == VapiRequest(answer)
       IN deploy' = IF logHealthTool.c = "throw" THEN DeployCatch(d, logHealthTool.v)
                    ELSE [d EXCEPT !.pc = "sendAlert", !.logHealthTool = logHealthTool.v]
  /\ UNCHANGED <<req, pc, idx, results, frames, response, threw, outbox,
                 googleAuth, hosted, health>>

\* Step 2, tool 2: send_alert
DeploySendAlert ==
  /\ deploy.pc = "sendAlert"
  /\ \E answer \in DeployAnswers("tool-alert") :
       LET d == DeploySend(deploy, <<"/tool">>, "POST", SendAlertToolBody, answer)
           sendAlertTool == VapiRequest(answer)
       IN deploy' = IF sendAlertTool.c = "throw" THEN DeployCatch(d, sendAlertTool.v)
                    ELSE [d EXCEPT !.pc = "assistant", !.sendAlertTool = sendAlertTool.v]
  /\ UNCHANGED <<req, pc, idx, results, frames, response, threw, outbox,
                 googleAuth, hosted, health>>

\* Step 3: the assistant, with the two tools created so far
DeployAssistant ==
  /\ deploy.pc = "assistant"
  /\ \E answer \in DeployAnswers("asst-1") :
       LET d == DeploySend(deploy, <<"/assistant">>, "POST",
                  AssistantBody(<<IdOfResource(deploy.logHealthTool),
                                  IdOfResource(deploy.sendAlertTool)>>), answer)
           assistant == VapiRequest(answer)
       IN deploy' = IF assistant.c = "throw" THEN DeployCatch(d, assistant.v)
                    ELSE [d EXCEPT !.pc = "followupTool", !.assistant = assistant.v]
  /\ UNCHANGED <<req, pc, idx, results, frames, response, threw, outbox,
                 googleAuth, hosted, health>>

\* tool 3: schedule_followup, with its environment variables and code
DeployFollowupTool ==
  /\ deploy.pc = "followupTool"
  /\ \E answer \in DeployAnswers("tool-followup") :
       LET d == DeploySend(deploy, <<"/tool">>, "POST",
                  ScheduleFollowupToolBody(deploy.env.VAPI_API_KEY,
                    IdOfResource(deploy.assistant), deploy.phoneNumberId), answer)
           scheduleFollowupTool == VapiRequest(answer)
       IN deploy' = IF scheduleFollowupTool.c = "throw"
                    THEN DeployCatch(d, scheduleFollowupTool.v)
                    ELSE [d EXCEPT !.pc = "link",
                            !.scheduleFollowupTool = scheduleFollowupTool.v]
  /\ UNCHANGED <<req, pc, idx, results, frames, response, threw, outbox,
                 googleAuth, hosted, health>>

\* Step 4: the assistant is patched with the three tools; deploy() returns
\* and the process ends
DeployLink ==
  /\ deploy.pc = "link"
  /\ \E answer \in DeployAnswers("asst-1") :
       LET d == DeploySend(deploy,
                  <<"/assistant/">> \o ToChunks(IdOfResource(deploy.assistant)), "PATCH",
                  LinkBody(<<IdOfResource(deploy.logHealthTool),
                             IdOfResource(deploy.scheduleFollowupTool),
                             IdOfResource(deploy.sendAlertTool)>>), answer)
           linked == VapiRequest(answer)
       IN deploy' = IF linked.c = "throw" THEN DeployCatch(d, linked.v)
                    ELSE [d EXCEPT !.pc = "done", !.exit = 0]
  /\ UNCHANGED <<req, pc, idx, results, frames, response, threw, outbox,
                 googleAuth, hosted, health>>

(***************************************************************************)
(* SCHEDULE_FOLLOWUP_CODE: the code of the schedule_followup tool, run by  *)
(* the voice platform with `args` and with `env` holding the environment   *)
(* variables declared on the tool                                          *)
(***************************************************************************)
\* const { VAPI_API_KEY, ASSISTANT_ID, PHONE_NUMBER_ID, CUSTOMER_PHONE } = env
FollowupCodeReads == {"VAPI_API_KEY", "ASSISTANT_ID", "PHONE_NUMBER_ID", "CUSTOMER_PHONE"}

FollowupArgs(name, minutes) ==
  JObj((IF name = "" THEN <<>> ELSE <<Prop("customer_name", JStr(<<name>>))>>)
       \o (IF minutes = "" THEN <<>> ELSE <<Prop("minutes_from_now", JNum(minutes))>>)
       \o <<Prop("reason", JStr(<<"cough">>))>>)
FollowupArgsChoices ==
  {FollowupArgs("Ann", "5"), FollowupArgs("", "1440"), FollowupArgs("Ann", "")}

\* the tool resources of a given function name held by the platform
ToolsNamed(remote, name) ==
  {i \in DOMAIN remote :
     GetProp(GetProp(remote[i].body, "function").v, "name").v = JStr(<<name>>)}

\* env of a run: one entry per environment variable declared on the tool
DeclaredOn(tool) ==
  LET list == GetProp(tool, "environmentVariables").v IN
  IF list.t # "array" THEN <<>> ELSE list.a
EnvLookup(tool, name) ==
  LET vs == DeclaredOn(tool)
      hits == {i \in DOMAIN vs : GetProp(vs[i], "name").v = JStr(<<name>>)}
  IN IF hits = {} THEN JUndef
     ELSE GetProp(vs[CHOOSE i \in hits : \A h \in hits : h <= i], "value").v

\* new Date(Date.now() + minutes_from_now * 60 * 1000).toISOString()
ScheduledTime(minutes) ==
  IF minutes.t = "number" THEN Normal(JStr(<<Now, "+", minutes.n, "min">>))
  ELSE Throw("Invalid time value")

\* the body of the call request the code builds from args and env
FollowupCodeBody(args, tool, scheduledTime) ==
  LET customer_name == GetProp(args, "customer_name").v IN
  JObj(<<Prop("assistantId", EnvLookup(tool, "ASSISTANT_ID")),
         Prop("phoneNumberId", EnvLookup(tool, "PHONE_NUMBER_ID")),
         Prop("customer", JObj(<<
           Prop("number", EnvLookup(tool, "CUSTOMER_PHONE")),
           Prop("name", IF Truthy(customer_name) THEN customer_name ELSE JUndef)>>)),
         Prop("schedulePlan", JObj(<<Prop("earliestAt", scheduledTime)>>))>>)

\* the assistant calls schedule_followup: the code runs up to its fetch
FollowupRunBegin ==
  /\ deploy.pc = "done"
  /\ deploy.run.pc = "idle"
  /\ ToolsNamed(deploy.remote, "schedule_followup") # {}
  /\ \E args \in FollowupArgsChoices :
       LET tool == deploy.remote[CHOOSE i \in ToolsNamed(deploy.remote, "schedule_followup") : TRUE].body
           scheduledTime == ScheduledTime(GetProp(args, "minutes_from_now").v)
       IN deploy' = [deploy EXCEPT !.run =
            IF scheduledTime.c = "throw"
            THEN [@ EXCEPT !.pc = "threw", !.args = args, !.ret = scheduledTime.v]
            ELSE [@ EXCEPT !.pc = "fetching", !.args = args, !.time = scheduledTime.v,
                    !.sent = Append(@, [url |-> CallUrl, method |-> "POST",
                       authorization |-> <<"Bearer ">>
                                         \o ToChunks(EnvLookup(tool, "VAPI_API_KEY")),
                       body |-> JSONStringify(
                                  FollowupCodeBody(args, tool, scheduledTime.v))])]]
  /\ UNCHANGED <<req, pc, idx, results, frames, response, threw, outbox,
                 googleAuth, hosted, health>>

\* the fetch of the code settles
FollowupRunFetchSettles ==
  /\ deploy.run.pc = "fetching"
  /\ \E answer \in PlatformAnswers :
       deploy' = [deploy EXCEPT !.run =
         IF answer.settle = "reject"
         THEN [@ EXCEPT !.pc = "threw", !.resp = answer, !.ret = JStr(<<"fetch failed">>)]
         ELSE [@ EXCEPT !.pc = "reading", !.resp = answer]]
  /\ UNCHANGED <<req, pc, idx, results, frames, response, threw, outbox,
                 googleAuth, hosted, health>>

\* const result = await response.json(), and what the code returns
FollowupRunJson ==
  /\ deploy.run.pc = "reading"
  /\ LET run == deploy.run
         result == JSONParse(run.resp.body)
         message == GetProp(result.v, "message")
         id == GetProp(result.v, "id")
     IN deploy' = [deploy EXCEPT !.run =
          IF result.c = "throw" THEN [@ EXCEPT !.pc = "threw", !.ret = result.v]
          ELSE IF ~run.resp.ok
          THEN IF message.c = "throw" THEN [@ EXCEPT !.pc = "threw", !.ret = message.v]
               ELSE [@ EXCEPT !.pc = "returned", !.ret = JObj(<<
                       Prop("success", JBool(FALSE)),
                       Prop("error", IF Truthy(message.v) THEN message.v
                                     ELSE JStr(<<"Failed to schedule call">>))>>)]
          ELSE IF id.c = "throw" THEN [@ EXCEPT !.pc = "threw", !.ret = id.v]
          ELSE [@ EXCEPT !.pc = "returned", !.ret = JObj(<<
                  Prop("success", JBool(TRUE)),
                  Prop("message", JStr(<<"Follow-up call scheduled for ">>
                    \o ToChunks(GetProp(run.args, "minutes_from_now").v)
                    \o <<" minutes from now">>)),
                  Prop("scheduledTime", run.time),
                  Prop("callId", id.v)>>)]]
  /\ UNCHANGED <<req, pc, idx, results, frames, response, threw, outbox,
                 googleAuth, hosted, health>>

RequestChoices == {[toolName |-> n, body |-> b] : n \in ToolNames, b \in Bodies}

NoRequests ==
  /\ idx = [r \in Requests |-> 1]
  /\ results = [r \in Requests |-> <<>>]
  /\ frames = [r \in Requests |-> <<>>]
  /\ response = [r \in Requests |-> NotSent]
  /\ threw = [r \in Requests |-> NotThrown]
  /\ outbox = <<>>

\* the server has received one request
InitServer ==
  /\ \E q \in RequestChoices : req = [r \in Requests |-> IF r = "r1" THEN q ELSE NoRequest]
  /\ pc = [r \in Requests |-> IF r = "r1" THEN "received" ELSE "none"]
  /\ NoRequests
  /\ hosted = HostedIdle
  /\ health = NotSent
  /\ deploy = DeployOff

\* the assistant has called the code tool
InitHosted ==
  /\ req = [r \in Requests |-> NoRequest]
  /\ pc = [r \in Requests |-> "none"]
  /\ NoRequests
  /\ \E a \in HostedArgsChoices, k \in PrivateKeys :
       hosted = [HostedIdle EXCEPT !.pc = "start", !.args = a, !.key = k]
  /\ health = NotSent
  /\ deploy = DeployOff

Init ==
  /\ googleAuth \in {"up", "down"}
  /\ (InitServer \/ InitHosted)

\* the server has received two requests
InitConcurrent ==
  /\ googleAuth = "up"
  /\ req \in [Requests -> UNION {ConcurrentRequests(r) : r \in Requests}]
  /\ \A r \in Requests : req[r] \in ConcurrentRequests(r)
  /\ pc = [r \in Requests |-> "received"]
  /\ NoRequests
  /\ hosted = HostedIdle
  /\ health = NotSent
  /\ deploy = DeployOff

NextServer ==
  \/ \E r \in Requests : Dispatch(r)
  \/ \E r \in Requests : Iterate(r)
  \/ \E r \in Requests : \E j \in 1..MaxCalls : FetchSettles(r, j)
  \/ \E r \in Requests : \E j \in 1..MaxCalls : JsonSettles(r, j)
  \/ \E r \in Requests : Resume(r)

NextHosted ==
  \/ HostedBegin
  \/ HostedTokenFetchSettles
  \/ HostedTokenJson
  \/ HostedAppendFetchSettles
  \/ HostedAppendJson

Next == NextServer \/ NextHosted

\* the server has received one request and may be probed
InitHealth ==
  /\ googleAuth = "up"
  /\ InitServer

NextHealth == NextServer \/ Health

\* node deploy.js is started in some environment
InitDeploy ==
  /\ googleAuth = "up"
  /\ req = [r \in Requests |-> NoRequest]
  /\ pc = [r \in Requests |-> "none"]
  /\ NoRequests
  /\ hosted = HostedIdle
  /\ health = NotSent
  /\ \E e \in ProcessEnvs : deploy = [DeployOff EXCEPT !.pc = "startup", !.env = e]

NextDeploy ==
  \/ DeployStartup
  \/ DeployPhone
  \/ DeployLogTool
  \/ DeploySendAlert
  \/ DeployAssistant
  \/ DeployFollowupTool
  \/ DeployLink
  \/ FollowupRunBegin
  \/ FollowupRunFetchSettles
  \/ FollowupRunJson

Spec == Init /\ [][Next]_vars
SpecConcurrent == InitConcurrent /\ [][NextServer]_vars
SpecHealth == InitHealth /\ [][NextHealth]_vars
SpecDeploy == InitDeploy /\ [][NextDeploy]_vars

(***************************************************************************)
(* The claims                                                              *)
(***************************************************************************)
Responded(r) == pc[r] = "responded"
Registered(r) == req[r].toolName \in RegisteredTools
ArgumentsOf(call) == GetProp(GetProp(call, "function").v, "arguments").v
IdOf(call) == GetProp(call, "id").v
ResultsSent(r) == GetProp(response[r].body, "results").v
ResultText(entry) == GetProp(entry, "result").v
OnlyError(body) == body.t = "object" /\ Len(body.o) = 1 /\ body.o[1].k = <<"error">>
Finished(frame) == frame.stage \in {"settled", "done", "threw"}

\* C1: a batch of N calls for a registered tool, none of which throws, is
\* answered 200 with N results whose toolCallIds are the call ids in order
C1_ResultsMirrorCalls ==
  \A r \in Requests :
    (Responded(r) /\ Registered(r) /\ threw[r].stage = "none") =>
      /\ response[r].status = 200
      /\ ResultsSent(r).t = "array"
      /\ Len(ResultsSent(r).a) = Len(Calls(r))
      /\ \A i \in 1..Len(Calls(r)) :
           GetProp(ResultsSent(r).a[i], "toolCallId").v = IdOf(Calls(r)[i])
C1_Witness ==
  \E r \in Requests :
    /\ Responded(r) /\ Registered(r) /\ response[r].status = 200
    /\ Len(Calls(r)) = 2
    /\ IdOf(Calls(r)[1]) # IdOf(Calls(r)[2])
    /\ Len(ResultsSent(r).a) = 2

\* C2: a tool name that is not a registered key is answered 404 with
\* { error: "Unknown tool: <name>" } and nothing is invoked as a handler
C2_UnknownToolIs404 ==
  \A r \in Requests :
    (Responded(r) /\ ~Registered(r)) =>
      /\ response[r].status = 404
      /\ response[r].body =
           JObj(<<Prop("error", JStr(<<"Unknown tool: ", req[r].toolName>>))>>)
      /\ frames[r] = <<>>

\* C3: when decoding or the handler throws on the k-th call of a batch for a
\* registered tool, no later call is handled and the one response is 500
\* with { error: message } and none of the results computed before
C3_ThrowAbortsBatch ==
  \A r \in Requests :
    (Registered(r) /\ threw[r].stage \in {"decode", "handler"}) =>
      /\ Responded(r)
      /\ response[r].status = 500
      /\ OnlyError(response[r].body)
      /\ Len(frames[r]) = (IF threw[r].stage = "decode" THEN threw[r].at - 1 ELSE threw[r].at)
      /\ \A j \in DOMAIN frames[r] : frames[r][j].call <= threw[r].at
      /\ Len(results[r]) = threw[r].at - 1
C3_Witness ==
  \E r \in Requests :
    /\ Registered(r) /\ threw[r].stage = "handler" /\ threw[r].at = 2
    /\ Len(results[r]) = 1
    /\ response[r].status = 500

\* C4: the calls of a batch are handled one after the other: when the
\* handler of a call starts, the handlers of all earlier calls have
\* completed and been resumed, so at most one is in flight
C4_OneHandlerInFlight ==
  \A r \in Requests :
    /\ \A j \in DOMAIN frames[r] : j < Len(frames[r]) => frames[r][j].stage = "done"
    /\ Cardinality({j \in DOMAIN frames[r] :
                      frames[r][j].stage \in {"fetching", "reading"}}) <= 1
C4_Witness ==
  \E r \in Requests :
    /\ Len(frames[r]) = 2
    /\ frames[r][1].fn = "scheduleFollowup.handler"
    /\ frames[r][1].stage = "done"
    /\ frames[r][2].stage = "fetching"

\* C5: for a registered tool and a mapping m, a call whose arguments are m
\* and a call whose arguments are the JSON text of m hand the handler the
\* same input and, the platform answering alike, get the same result
BothForms == {<<m, JSONStringify(m)>> : m \in Mappings}
SameContent(a, b) == a.t = "object" /\ b.t = "text" /\ <<a, b>> \in BothForms
C5_StringAndMappingAgree ==
  \A r \in Requests : Registered(r) =>
    /\ \A j \in DOMAIN frames[r] : \A f \in BothForms :
         LET arguments == ArgumentsOf(Calls(r)[frames[r][j].call]) IN
         (arguments = f[1] \/ (arguments.t = "text" /\ arguments = f[2]))
           => frames[r][j].params = f[1]
    /\ \A i, j \in DOMAIN frames[r] :
         ( /\ SameContent(ArgumentsOf(Calls(r)[i]), ArgumentsOf(Calls(r)[j]))
           /\ frames[r][i].resp = frames[r][j].resp
           /\ Finished(frames[r][i]) /\ Finished(frames[r][j]) )
         => /\ frames[r][i].out = frames[r][j].out
            /\ (i <= Len(results[r]) /\ j <= Len(results[r])
                  => ResultText(results[r][i]) = ResultText(results[r][j]))
C5_Witness ==
  \E r \in Requests : \E m \in Mappings :
    /\ Registered(r) /\ Len(results[r]) = 2
    /\ ArgumentsOf(Calls(r)[1]) = m
    /\ ArgumentsOf(Calls(r)[2]) = JSONStringify(m)
    /\ frames[r][2].params = m
    /\ ResultText(results[r][1]) = ResultText(results[r][2])

\* C6 as stated: with the token exchange failing, a log_health_status call
\* through the dispatcher is answered 200 and its result mentions "error"
MentionsError(chunks) == \E i \in DOMAIN chunks : chunks[i] \in {"error", "unknown error"}
TokenCarriesError(token) == token.t = "object" /\ Truthy(GetProp(token, "error").v)
FollowupAnswered(frame) ==
  /\ frame.fn = "scheduleFollowup.handler"
  /\ frame.resp.settle = "resolve"
  /\ Finished(frame)
C7_FollowupNeverThrows ==
  \A r \in Requests :
    /\ \A j \in DOMAIN frames[r] : FollowupAnswered(frames[r][j]) =>
         /\ frames[r][j].out.c = "normal"
         /\ LET text == GetProp(frames[r][j].out.v, "result").v IN
            IF frames[r][j].resp.ok THEN Contains(text.s, <<"Call ID: ">>)
            ELSE text.s[1] = "Failed to schedule follow-up: "
    /\ ( /\ Responded(r) /\ req[r].toolName = "schedule_followup"
          /\ \A i \in DOMAIN Calls(r) :
               \E f \in BothForms : ArgumentsOf(Calls(r)[i]) \in {f[1], f[2]}
          /\ \A j \in DOMAIN frames[r] : FollowupAnswered(frames[r][j]) )
       => /\ response[r].status = 200
          /\ Len(ResultsSent(r).a) = Len(Calls(r))

\* C8: two batches in flight together do not affect each other: each
\* response is the one its own calls and its own handlers' outcomes give
\* (its own toolCallIds in its own order on 200, its own error on 500)
OwnResponse(r) ==
  IF threw[r].stage = "none"
  THEN [status |-> 200,
        body |-> JObj(<<Prop("results",
                   JArr([i \in 1..Len(Calls(r)) |->
                           ResultEntry(Calls(r)[i], frames[r][i].out.v)]))>>)]
  ELSE [status |-> 500,
        body |-> JObj(<<Prop("error",
                   IF threw[r].stage = "decode"
                   THEN DecodeArguments(Calls(r)[threw[r].at]).v
                   ELSE frames[r][Len(frames[r])].out.v)>>)]
C8_RequestsIndependent ==
  \A r \in Requests :
    /\ \A j \in DOMAIN frames[r] :
         frames[r][j].params = DecodeArguments(Calls(r)[j]).v
    /\ Len(results[r]) <= Len(frames[r])
    /\ Responded(r) => response[r] = OwnResponse(r)
C8_Witness ==
  /\ Responded("r1") /\ Responded("r2")
  /\ response["r2"].status = 500
  /\ response["r1"].status = 200
  /\ Len(ResultsSent("r1").a) = 2
  /\ Len(outbox) = 3
  /\ outbox[1].req = "r1" /\ outbox[2].req = "r2" /\ outbox[3].req = "r1"

\* C9: schedule_followup does not validate followUpDate: each invocation
\* sends one create-call request whose schedulePlan.earliestAt is the given
\* followUpDate, past or future, and a failed request is not sent again
SentFor(r) == SelectSeq(outbox, LAMBDA e : e.req = r)
Submits(frame) ==
  frame.fn = "scheduleFollowup.handler" /\ ScheduleFollowupBody(frame.params).c = "normal"
EarliestAt(request) ==
  GetProp(GetProp(JSONParse(request.body).v, "schedulePlan").v, "earliestAt").v
C9_OneSubmissionUnvalidated ==
  \A r \in Requests :
    /\ Len(SentFor(r)) = Cardinality({j \in DOMAIN frames[r] : Submits(frames[r][j])})
    /\ \A k \in 1..Len(SentFor(r)) :
         /\ Submits(frames[r][k])
         /\ SentFor(r)[k].url = CallUrl
         /\ EarliestAt(SentFor(r)[k]) = GetProp(frames[r][k].params, "followUpDate").v
C9_Witness ==
  \E r \in Requests :
    /\ Len(frames[r]) = 1 /\ Len(SentFor(r)) = 1
    /\ frames[r][1].stage = "done"
    /\ ~frames[r][1].resp.ok
    /\ EarliestAt(SentFor(r)[1]) = JStr(<<PastDate>>)
    /\ Responded(r)

\* C10: log_health_status given symptoms as a sequence, the empty one
\* included, and a mood of good, fair or poor returns without throwing a
\* string containing "Mood: <mood>."
C10_MoodReported ==
  \A r \in Requests : \A j \in DOMAIN frames[r] :
    LET frame == frames[r][j] IN
    ( /\ frame.fn = "logHealthStatus.handler"
      /\ frame.params.t = "object"
      /\ GetProp(frame.params, "symptoms").v.t = "array"
      /\ GetProp(frame.params, "mood").v \in {JStr(<<"good">>), JStr(<<"fair">>), JStr(<<"poor">>)} )
    => /\ frame.out.c = "normal"
       /\ Contains(GetProp(frame.out.v, "result").v.s,
                   <<"Mood: ">> \o GetProp(frame.params, "mood").v.s \o <<".">>)
C10_Witness ==
  \E r \in Requests : \E j \in DOMAIN frames[r] :
    /\ frames[r][j].fn = "logHealthStatus.handler"
    /\ frames[r][j].params = ParamsEmptyPoor
    /\ frames[r][j].out.c = "normal"
    /\ Contains(GetProp(frames[r][j].out.v, "result").v.s, <<"Mood: ", "poor", ".">>)

KeyMissing == deploy.env.VAPI_API_KEY \in {JUndef, JStr(<<>>)}

HealthOk == [status |-> 200, body |-> JObj(<<Prop("status", JStr(<<"ok">>))>>)]
Busy(r) == pc[r] \in {"loop", "await"}

\* C12: whenever GET /health is served, in whatever state the batches are,
\* the answer is 200 { status: "ok" }, no handler is invoked and nothing
\* of the server's state or of its outbound requests changes
C12_HealthAlwaysOk ==
  [][health' # health =>
       /\ health' = HealthOk
       /\ UNCHANGED <<req, pc, idx, results, frames, response, threw, outbox>>]_vars
C12_Witness ==
  /\ health = HealthOk
  /\ Busy("r1")
  /\ pc["r1"] = "await"
  /\ results["r1"] # <<>>
  /\ outbox # <<>>

Declares(tool, name) ==
  \E i \in DOMAIN DeclaredOn(tool) : GetProp(DeclaredOn(tool)[i], "name").v = JStr(<<name>>)
Defined(obj, key) == obj.t = "object" /\ HasOwn(obj, key) /\ Truthy(OwnValue(obj, key))

\* C13: the schedule_followup tool is created after the assistant, every
\* variable its code reads from env is declared on the tool, and the call
\* request the code sends carries a customer number and an assistantId
C13_FollowupEnvDeclared ==
  /\ \A i \in ToolsNamed(deploy.remote, "schedule_followup") :
       /\ \E j \in 1..(i - 1) : deploy.remote[j].kind = "/assistant"
       /\ \A name \in FollowupCodeReads : Declares(deploy.remote[i].body, name)
  /\ \A k \in DOMAIN deploy.run.sent :
       LET body == JSONParse(deploy.run.sent[k].body).v IN
       /\ Defined(body, "assistantId")
       /\ Defined(GetProp(body, "customer").v, "number")
====
